---------------------------- MODULE Spec2Model ----------------------------
(***************************************************************************)
(* The conversation state machine of the security assistant: the message   *)
(* handler of the chat-widget variant (src/gradio_server.py, predict) and   *)
(* of the team-messaging variant (src/main.py, handle_app_mention), the    *)
(* process-wide session table they share with every in-flight handler, the *)
(* CI-trigger tool and the audits table.                                    *)
(*                                                                         *)
(* Python objects are modelled with their identity: the session table maps *)
(* a key to a reference to a dict object, and a handler that was suspended *)
(* at the language-model call still holds the references it read before.   *)
(* Texts are strings, and lower(), `in` and the f-strings are computed.     *)
(***************************************************************************)
EXTENDS Integers, Sequences, FiniteSets, TLC

(***************************************************************************)
(* Bounds of the model.                                                    *)
(***************************************************************************)
\* audit records the store may hold before the questions are held back
MaxAudits == 1
\* agent exchanges kept in one history list before the agent path is held back
MaxHistory == 1
\* handlers that may be suspended at the language-model call at once
MaxInFlight == 2
\* answers sent that differ from the plain answer
MaxOddAnswers == 1
\* questions of a list, from its first, for which such an answer is offered
\* (it is offered for the last question too)
MaxOddIndex == 1
\* while handlers are interleaved: the question_index up to which the
\* sessions other than the first are sent messages
MaxShallowIndex == 1

(***************************************************************************)
(* Python str operations.                                                  *)
(***************************************************************************)
UpperChars == "ABCDEFGHIJKLMNOPQRSTUVWXYZ"
LowerChars == "abcdefghijklmnopqrstuvwxyz"

LowerChar(c) ==
    IF \E i \in 1..Len(UpperChars) : SubSeq(UpperChars, i, i) = c
    THEN LET i == CHOOSE j \in 1..Len(UpperChars) : SubSeq(UpperChars, j, j) = c
         IN  SubSeq(LowerChars, i, i)
    ELSE c

\* str.lower()
RECURSIVE lower(_)
lower(s) ==
    IF Len(s) = 0 THEN ""
    ELSE LowerChar(SubSeq(s, 1, 1)) \o lower(SubSeq(s, 2, Len(s)))

\* needle in hay
In(needle, hay) ==
    \E i \in 1..(Len(hay) - Len(needle) + 1) :
        SubSeq(hay, i, i + Len(needle) - 1) = needle

\* list[i] with Python's 0-based index, a negative index counting from the end
PyIndex(list, i) == IF i < 0 THEN list[Len(list) + i + 1] ELSE list[i + 1]

(***************************************************************************)
(* The question lists.                                                     *)
(***************************************************************************)
MOBILE_QUESTIONS == <<
    "Does the mobile app have any force-update functionality?",
    "Is there a disclosure policy in place?",
    "Does the app comply with privacy laws and regulations?",
    "Is biometric authentication used?",
    "Does your application have 2FA?",
    "Is there any app-level encryption (apart from HTTPS)?",
    "How many file upload endpoints does the application have?",
    "Does this mobile application contact a server via the internet? If yes, what is the URL?" >>

WEB_QUESTIONS == <<
    "What is the website URL?",
    "Are websockets used in the project?",
    "Does the application make use of web messaging?",
    "How many file upload endpoints does the application have?",
    "Does the project use Flash?",
    "Are there different roles in the application (like admin, employee & customer)?",
    "Do your users log in via a username they can set by themselves?",
    "Is there any sort of in-app encryption (apart from HTTPS)?",
    "Are there multiple ways to log in (like email/password and OTP)?",
    "Are cookies used to maintain sessions?",
    "Is there any password recovery functionality?",
    "Does the project use GraphQL?",
    "Does the project use OAuth?" >>

(***************************************************************************)
(* The fixed reply texts.                                                  *)
(***************************************************************************)
TypePrompt == "I can help with that. What kind of project is it - mobile or web?"
RePrompt == "Please specify if your project is 'mobile' or 'web' to continue."
ScanPrefix == "Okay, I'm starting a scan on that endpoint. "
ScanInfix == "\n\nIn the meantime, let's continue. "
JenkinsEnvError == "Error: Jenkins environment variables (JENKINS_URL, JENKINS_USER, JENKINS_API_TOKEN, JENKINS_JOB_NAME) are not set."


(***************************************************************************)
(* The environment: session keys, message texts, and the outcomes of the   *)
(* external calls.                                                         *)
(***************************************************************************)
\* session_hash / thread_ts values
SessionKeys == {"s1", "s2"}

\* message texts a user may send
Msgs == { "I want an audit", "QUESTIONNAIRE", "Audit via Jenkins",
          "Questionnaire for MobSF", "run mobsf", "hello", "mobile", "Web",
          "my web app", "Mobile or web", "web ", "https://x.test/app", "Yes" }

\* the answers offered while questions are being asked
AnswerMsgs == { "Yes", "https://x.test/app", "Audit via Jenkins" }

\* the messages offered on the agent path of main.py, which keeps them
AgentMsgs == { "hello", "Audit via Jenkins" }

\* the messages sent while handlers are interleaved
ConcurrentMsgs == { "I want an audit", "mobile", "Web", "hello", "Yes" }

\* what the agent answers
AgentOutputs == { "Done." }

\* os.getenv of the four Jenkins variables ("" stands for an unset variable)
JenkinsEnvs ==
    { [JENKINS_URL |-> u, JENKINS_USER |-> "bot", JENKINS_API_TOKEN |-> t,
       JENKINS_JOB_NAME |-> j] :
          u \in {"", "http://ci"}, t \in {"", "tok"}, j \in {"", "scan"} }
    \cup { [JENKINS_URL |-> "http://ci", JENKINS_USER |-> "", JENKINS_API_TOKEN |-> "tok",
            JENKINS_JOB_NAME |-> "scan"] }

\* what requests.post and raise_for_status do: a response with a success
\* status, or a RequestException with its text
PostOutcomes ==
    { [ok |-> TRUE,  text |-> "201", code |-> "201"],
      [ok |-> FALSE, text |-> "500 Server Error", code |-> "500"],
      [ok |-> FALSE, text |-> "Read timed out.", code |-> ""] }

\* the endpoints a CI-trigger function is called with directly
Endpoints == { "https://x.test/app", "192.168.1.1" }

\* the CI-trigger functions of the repository
CiTriggers == { "trigger_jenkins_build", "run_jenkins_job" }

\* what calling the decorated tool object does: run the function body, or
\* raise before it
ToolCallOutcomes == { "runs", "raises" }
ToolCallError == "BaseTool.__call__() got an unexpected keyword argument 'endpoint'"

\* what the sqlite3 calls of the completing step do
DbOutcomes == { "ok", "connect_fails", "execute_fails", "commit_fails" }
DbError(o) == CASE o = "connect_fails" -> "unable to open database file"
                [] o = "execute_fails" -> "no such table: audits"
                [] o = "commit_fails"  -> "database is locked"
                [] OTHER -> ""

\* datetime.now().isoformat(): the clock is read, and is not modelled further
Timestamps == { "2025-01-01T00:00:00" }

(***************************************************************************)
(* The state.                                                              *)
(***************************************************************************)
VARIABLES
    variant,             \* "gradio": predict; "main": handle_app_mention
    sched,               \* "serial": one message at a time; "concurrent":
                         \* two keys, handlers interleaved; "overlap": one
                         \* key, several handlers suspended at once
    OPENAI_API_KEY,      \* "" when the variable is not set
    conversation_state,  \* the session table: key -> reference to a dict
    dicts,               \* the dict objects, by reference
    lists,               \* the agent_history list objects, by reference
    handlers,            \* the handlers suspended at agent_executor.ainvoke
    audits,              \* the rows of the audits table, in insertion order
    odd,                 \* answers sent so far that were not the plain one
    last,                \* what the last handler step did (observation)
    log,                 \* what the user of each key saw and sent in the
                         \* current questionnaire (observation)
    ci_call              \* a direct call of a CI-trigger function: its
                         \* arguments and environment, and what it did

vars == << variant, sched, OPENAI_API_KEY, conversation_state, dicts, lists,
           handlers, audits, odd, last, log, ci_call >>

\* the rows the store may hold before no last answer is sent any more: with
\* handlers of one key suspended together, one more, so that a session that
\* is asking its last question after a row was written can be completed
AuditCap == IF sched = "overlap" THEN MaxAudits + 1 ELSE MaxAudits

\* the exchanges a history takes: with handlers of one key suspended
\* together, one more, so that a handler begins on an entry that has a history
HistoryCap == IF sched = "overlap" THEN MaxHistory + 1 ELSE MaxHistory

\* the handlers suspended at once
InFlightCap == IF sched = "overlap" THEN MaxInFlight ELSE 1

\* the keys in use: one session when messages are handled one at a time
Keys == IF sched = "concurrent" THEN SessionKeys ELSE {"s1"}

\* the odd answers offered: none while handlers are interleaved
OddCap == IF sched = "serial" THEN MaxOddAnswers ELSE 0

DictIds == 1..(Cardinality(SessionKeys) + MaxInFlight)
ListIds == 1..(Cardinality(SessionKeys) + 2 * MaxInFlight)
HandlerIds == 1..MaxInFlight

\* a dict object: the keys it has, and the value under each (a default under
\* a key it does not have)
EmptyDict ==
    [ keys |-> {}, in_questionnaire |-> FALSE, answers |-> << >>,
      project_type |-> "", questions |-> << >>, question_index |-> 0,
      agent_history |-> 0 ]

\* a deviation: the questionnaire branch taken only once the questions are
\* set; C3 fails of it
InQuestionnaireWithQuestions(d) ==
    "in_questionnaire" \in d.keys /\ d.in_questionnaire /\ "questions" \in d.keys

\* state.get("in_questionnaire")
InQuestionnaire(d) == "in_questionnaire" \in d.keys /\ d.in_questionnaire

\* answers[question] = answer on an insertion-ordered dict
DictSet(answers, question, answer) ==
    IF \E i \in 1..Len(answers) : answers[i][1] = question
    THEN [ i \in 1..Len(answers) |->
             IF answers[i][1] = question THEN << question, answer >> ELSE answers[i] ]
    ELSE Append(answers, << question, answer >>)

NoHandler == [ pc |-> "idle", key |-> "", msg |-> "", state |-> 0, chat_history |-> 0 ]

NoStep == [ key |-> "", msg |-> "", path |-> "none", reply |-> "",
            calls |-> << >>, posts |-> 0, agent |-> FALSE, stored |-> FALSE,
            status |-> "", db |-> "", seen |-> 0 ]


(***************************************************************************)
(* The CI-trigger tool and the serialisation of the answers.               *)
(***************************************************************************)
\* all([jenkins_url, jenkins_user, jenkins_token, job_name])
AllSet(env) ==
    /\ env.JENKINS_URL # ""
    /\ env.JENKINS_USER # ""
    /\ env.JENKINS_API_TOKEN # ""
    /\ env.JENKINS_JOB_NAME # ""

\* the body of trigger_jenkins_build: the status text, and the POSTs it made
trigger_jenkins_build(endpoint, env, post) ==
    IF ~AllSet(env)
    THEN [ text |-> JenkinsEnvError, posts |-> 0 ]
    ELSE IF post.ok
    THEN [ text |-> "Successfully triggered Jenkins job '" \o env.JENKINS_JOB_NAME
                      \o "' for endpoint '" \o endpoint \o "'. Status: " \o post.text,
           posts |-> 1 ]
    ELSE [ text |-> "Failed to trigger Jenkins job '" \o env.JENKINS_JOB_NAME
                      \o "'. Error: " \o post.text,
           posts |-> 1 ]

\* a deviation: the tool called on the web URL question only; C10 fails of it
IsUrlQuestionWebOnly(last_question) ==
    In("What is the website URL?", last_question)

\* f"{value}" of an environment variable: None when it is not set
Shown(value) == IF value = "" THEN "None" ELSE value

\* the body of run_jenkins_job (tools/jenkins_tool.py): no test of the
\* variables and no try; requests.post is called with the URL built from
\* them, and raises when the URL has no scheme or the request fails
run_jenkins_job(endpoint, env, post) ==
    IF env.JENKINS_URL = ""
    THEN [ text |-> "", posts |-> 1,
           raised |-> "Invalid URL 'None/job/" \o Shown(env.JENKINS_JOB_NAME)
                        \o "/buildWithParameters': No scheme supplied." ]
    ELSE IF post.code = ""
    THEN [ text |-> "", posts |-> 1, raised |-> post.text ]
    ELSE IF post.code = "201"
    THEN [ text |-> "Jenkins job '" \o Shown(env.JENKINS_JOB_NAME)
                      \o "' triggered successfully.",
           posts |-> 1, raised |-> "" ]
    ELSE [ text |-> "Failed to trigger Jenkins job '" \o Shown(env.JENKINS_JOB_NAME)
                      \o "'. Status code: " \o post.code,
           posts |-> 1, raised |-> "" ]

\* the test that makes an answer step call the tool
IsUrlQuestion(last_question) ==
    \/ In("What is the website URL?", last_question)
    \/ In("contact a server via the internet", last_question)

\* json.dumps(answers, indent=4) of a dict of plain texts (no character of the
\* texts used here needs escaping)
RECURSIVE JsonItems(_)
JsonItems(answers) ==
    IF Len(answers) = 0 THEN ""
    ELSE "    \"" \o answers[1][1] \o "\": \"" \o answers[1][2] \o "\""
         \o (IF Len(answers) = 1 THEN "" ELSE ",\n" \o JsonItems(Tail(answers)))

json_dumps(answers) ==
    IF Len(answers) = 0 THEN "{}" ELSE "{\n" \o JsonItems(answers) \o "\n}"

(***************************************************************************)
(* The replies.                                                            *)
(***************************************************************************)
NextQuestionReply(tool_response, next_question) ==
    IF tool_response # ""
    THEN ScanPrefix \o tool_response \o ScanInfix \o next_question
    ELSE next_question

SavedReply ==
    IF variant = "gradio"
    THEN "Thank you! All answers have been recorded in the local database. How else can I help you?"
    ELSE "Thank you! All answers have been recorded. How else can I help?"

NotSavedReply(e) ==
    "Thank you! I have your answers. However, I failed to save them to the database: " \o e

NotConfiguredReply ==
    IF variant = "gradio"
    THEN "OpenAI API key is not configured. I can't process this request."
    ELSE "OpenAI API key is not configured."

\* the reply of the handler's outer except clause
Apology(e) ==
    IF variant = "gradio"
    THEN "Sorry, a critical error occurred: " \o e
           \o ". Please check the console logs for more details."
    ELSE "Sorry, a critical error occurred: " \o e

UnboundConn == "local variable 'conn' referenced before assignment"
AgentError == "Connection error."

(***************************************************************************)
(* Routing.                                                                *)
(***************************************************************************)
is_audit_request(user_intent) ==
    In("audit", user_intent) \/ In("questionnaire", user_intent)

is_tool_request(user_intent) ==
    In("jenkins", user_intent) \/ In("mobsf", user_intent)

\* a deviation: the audit word alone decides; C4 fails of it
StartsQuestionnaireOnAudit(user_intent) ==
    is_audit_request(user_intent)

\* if is_audit_request and not is_tool_request
StartsQuestionnaire(user_intent) ==
    is_audit_request(user_intent) /\ ~is_tool_request(user_intent)

\* a deviation: the substring test in both variants; C7 fails of it
IsProjectTypeAnywhere(user_intent) ==
    In("mobile", user_intent) \/ In("web", user_intent)

\* the project-type test of the variant
IsProjectType(user_intent) ==
    IF variant = "gradio"
    THEN user_intent \in {"mobile", "web"}
    ELSE In("mobile", user_intent) \/ In("web", user_intent)

\* a deviation: "web" looked for first in main.py; C24 fails of it
ProjectTypeOfWebFirst(user_intent) ==
    IF variant = "gradio"
    THEN user_intent
    ELSE IF In("web", user_intent) THEN "web" ELSE "mobile"

\* the project type the variant takes from a matching message
ProjectTypeOf(user_intent) ==
    IF variant = "gradio"
    THEN user_intent
    ELSE IF In("mobile", user_intent) THEN "mobile" ELSE "web"

QuestionsOf(project_type) ==
    IF project_type = "mobile" THEN MOBILE_QUESTIONS ELSE WEB_QUESTIONS

\* message.lower(), kept as a table over the message texts
UserIntent == [ m \in Msgs |-> lower(m) ]


(***************************************************************************)
(* Objects and references.                                                 *)
(***************************************************************************)
Busy == { h \in HandlerIds : handlers[h].pc # "idle" }

\* the messages sent while handlers are interleaved: fewer texts
Offered(m) == IF sched = "serial" THEN TRUE ELSE m \in ConcurrentMsgs

\* a message for key k is taken up: at any time, or one at a time
CanReceive(k) ==
    /\ k \in Keys
    /\ IF sched = "serial" THEN Busy = {} ELSE TRUE
    /\ IF sched # "concurrent" \/ k = "s1" \/ k \notin DOMAIN conversation_state
       THEN TRUE
       ELSE dicts[conversation_state[k]].question_index <= MaxShallowIndex

LiveDicts(table, hs) ==
    ({ table[k] : k \in DOMAIN table } \cup { hs[h].state : h \in HandlerIds }) \ {0}

LiveLists(table, ds, hs) ==
    ({ ds[d].agent_history : d \in LiveDicts(table, hs) }
       \cup { hs[h].chat_history : h \in HandlerIds }) \ {0}

\* a deviation: one dict object given out as every new dict; C16 fails of it
FreshDictShared == CHOOSE d \in DictIds : \A e \in DictIds : d <= e

\* the reference a new object gets
FreshDict == CHOOSE d \in DictIds :
    /\ d \notin LiveDicts(conversation_state, handlers)
    /\ \A e \in DictIds : e < d => e \in LiveDicts(conversation_state, handlers)

FreshList == CHOOSE l \in ListIds :
    /\ l \notin LiveLists(conversation_state, dicts, handlers)
    /\ \A e \in ListIds : e < l => e \in LiveLists(conversation_state, dicts, handlers)

\* the next table, objects and handlers; an object nothing refers to any
\* more is dropped
Store(table, ds, ls, hs) ==
    /\ conversation_state' = table
    /\ handlers' = hs
    /\ dicts' = [ d \in DictIds |->
                    IF d \in LiveDicts(table, hs) THEN ds[d] ELSE EmptyDict ]
    /\ lists' = [ l \in ListIds |->
                    IF l \in LiveLists(table, ds, hs) THEN ls[l] ELSE << >> ]

\* state = conversation_state.get(key, {}): the reference, and the dict
StateRef(k) == IF k \in DOMAIN conversation_state THEN conversation_state[k] ELSE FreshDict
StateOf(k) == IF k \in DOMAIN conversation_state THEN dicts[conversation_state[k]] ELSE EmptyDict

\* conversation_state[key] = state
TableSet(table, k, ref) == [ j \in DOMAIN table \cup {k} |-> IF j = k THEN ref ELSE table[j] ]

\* a deviation: the completed session left in the table; C9 fails of it
TableDelNothing(table, k) == table

\* del conversation_state[key]
TableDel(table, k) == [ j \in DOMAIN table \ {k} |-> table[j] ]

(***************************************************************************)
(* The steps of the questionnaire on the session's dict.                   *)
(***************************************************************************)
\* a deviation: answers not reset at the start; C5 fails of it
StartedWithoutAnswers(state) ==
    [ state EXCEPT !.keys = @ \cup {"in_questionnaire"},
                   !.in_questionnaire = TRUE ]

\* is_audit_request and not is_tool_request: in_questionnaire and answers set
Started(state) ==
    [ state EXCEPT !.keys = @ \cup {"in_questionnaire", "answers"},
                   !.in_questionnaire = TRUE,
                   !.answers = << >> ]

\* a deviation: question_index starting at 0; C6 fails of it
TypedAtZero(state, user_intent) ==
    [ state EXCEPT !.keys = @ \cup {"project_type", "questions", "question_index"},
                   !.project_type = ProjectTypeOf(user_intent),
                   !.questions = QuestionsOf(ProjectTypeOf(user_intent)),
                   !.question_index = 0 ]

\* the project type is taken: project_type, questions and question_index set
Typed(state, user_intent) ==
    [ state EXCEPT !.keys = @ \cup {"project_type", "questions", "question_index"},
                   !.project_type = ProjectTypeOf(user_intent),
                   !.questions = QuestionsOf(ProjectTypeOf(user_intent)),
                   !.question_index = 1 ]

\* a deviation: every answer recorded under the first question; C8 fails of it
LastQuestionFirst(state) == PyIndex(state.questions, 0)

\* last_question = question_list[question_index - 1]
LastQuestion(state) == PyIndex(state.questions, state.question_index - 1)

\* a deviation: the answer not recorded; C2 fails of it
RecordedNothing(state, message) == state

\* state["answers"][last_question] = message
Recorded(state, message) ==
    [ state EXCEPT !.answers = DictSet(@, LastQuestion(state), message) ]

\* question_index < len(question_list)
HasNext(state) == state.question_index < Len(state.questions)

\* next_question = question_list[question_index]
NextQuestion(state) == PyIndex(state.questions, state.question_index)

\* a deviation: question_index left where it was read; C19 fails of it
AdvancedNowhere(state) == state

\* a deviation: question_index advanced by two; C1 fails of it
AdvancedByTwo(state) == [ state EXCEPT !.question_index = @ + 2 ]

\* state["question_index"] += 1
Advanced(state) == [ state EXCEPT !.question_index = @ + 1 ]

\* the row of the INSERT
AuditRow(state, timestamp) ==
    [ project_type |-> state.project_type,
      answers |-> json_dumps(state.answers),
      timestamp |-> timestamp ]

\* a deviation: the row is written twice; the append-only check of C18 fails
\* of it
InsertedTwice(rows, row) == Append(Append(rows, row), row)

\* cursor.execute("INSERT INTO audits ...") and conn.commit(): one more row
\* at the end of the table
Inserted(rows, row) == Append(rows, row)

\* the answers the environment offers, within the bound on odd answers
PlainAnswer == "Yes"
AnswerOffered(state, m) ==
    /\ m \in AnswerMsgs
    /\ IF m = PlainAnswer
       THEN TRUE
       ELSE /\ odd < OddCap
            /\ IF state.question_index <= MaxOddIndex THEN TRUE ELSE ~HasNext(state)
OddAfter(m) == IF m = PlainAnswer THEN odd ELSE odd + 1

Step(k, m, path, reply, calls, posts, agent, stored) ==
    [ key |-> k, msg |-> m, path |-> path, reply |-> reply, calls |-> calls,
      posts |-> posts, agent |-> agent, stored |-> stored, status |-> "", db |-> "",
      seen |-> 0 ]

\* the step, with the text the tool call of the answer step returned
WithStatus(step, tool_response) == [ step EXCEPT !.status = tool_response ]

\* the completing step, with what its sqlite3 calls did
WithDb(step, db) == [ step EXCEPT !.db = db ]

JenkinsCall(endpoint) == [ name |-> "trigger_jenkins_build", arg |-> endpoint ]

(***************************************************************************)
(* The user's side of a questionnaire: the message that chose the type,    *)
(* the question the last reply put, each question put with the message     *)
(* sent in answer to it, and whether every step so far replied normally.   *)
(***************************************************************************)
NoLog == [ type_msg |-> "", asked |-> "", given |-> << >>, clean |-> FALSE,
           built |-> FALSE, saved |-> FALSE ]

\* whether the questionnaire of the key has written its row, after a step:
\* not at its start, and from the step on that wrote the row
Marked(l, step) ==
    CASE step.path = "start" -> [l EXCEPT ![step.key].saved = FALSE]
      [] step.path = "saved" -> [l EXCEPT ![step.key].saved = TRUE]
      [] OTHER -> l

\* whether the CI-trigger function has run in the questionnaire so far, after
\* a step: it has when the step got a status text from it
Built(before, step) == before \/ step.status # ""

\* the question a reply puts: the reply, without the scan status before it
Asked(reply) ==
    LET starts == { i \in 1..(Len(reply) - Len(ScanInfix) + 1) :
                      SubSeq(reply, i, i + Len(ScanInfix) - 1) = ScanInfix }
    IN  IF starts = {} THEN reply
        ELSE LET i == CHOOSE j \in starts : \A l \in starts : j <= l
             IN  SubSeq(reply, i + Len(ScanInfix), Len(reply))

LogAfter(step) ==
    CASE sched # "serial" -> Marked(log, step)
      [] step.path = "start" ->
           [log EXCEPT ![step.key] = [NoLog EXCEPT !.clean = TRUE]]
      [] step.path = "project_type" ->
           [log EXCEPT ![step.key].type_msg = step.msg,
                       ![step.key].asked = Asked(step.reply)]
      [] step.path = "next" ->
           [log EXCEPT ![step.key].given = Append(@, << log[step.key].asked, step.msg >>),
                       ![step.key].asked = Asked(step.reply),
                       ![step.key].built = Built(@, step)]
      [] step.path \in {"saved", "not_saved"} ->
           [log EXCEPT ![step.key].given = Append(@, << log[step.key].asked, step.msg >>),
                       ![step.key].asked = "",
                       ![step.key].built = Built(@, step),
                       ![step.key].saved = @ \/ step.path = "saved"]
      [] step.path = "error" ->
           [log EXCEPT ![step.key].clean = FALSE,
                       ![step.key].built = Built(@, step)]
      [] OTHER -> log

\* the step, with the question_index the table had for its key when the step
\* began
WithSeen(step) == [ step EXCEPT !.seen = StateOf(step.key).question_index ]

\* the step is observed
Observe(step) == last' = WithSeen(step) /\ log' = LogAfter(step)

(***************************************************************************)
(* The handler, one action for each path through it.  A path that does not *)
(* reach the language-model call runs without suspension up to its reply.  *)
(***************************************************************************)
\* the start test on every message and the tool test on every question, taken
\* once
StartMsgs == { m \in Msgs : StartsQuestionnaire(UserIntent[m]) }
UrlQuestions ==
    { q \in { MOBILE_QUESTIONS[i] : i \in DOMAIN MOBILE_QUESTIONS }
             \cup { WEB_QUESTIONS[i] : i \in DOMAIN WEB_QUESTIONS } : IsUrlQuestion(q) }

Frame == UNCHANGED << variant, sched, OPENAI_API_KEY, ci_call >>

\* in a questionnaire, no questions yet, and the message names the type
AcceptProjectType(k, m) ==
    /\ CanReceive(k)
    /\ Offered(m)
    /\ InQuestionnaire(StateOf(k))
    /\ "questions" \notin StateOf(k).keys
    /\ IsProjectType(UserIntent[m])
    /\ Len(audits) < MaxAudits
    /\ LET ref == StateRef(k)
           state == Typed(StateOf(k), UserIntent[m])
       IN  /\ Store(TableSet(conversation_state, k, ref),
                    [dicts EXCEPT ![ref] = state], lists, handlers)
           /\ Observe(Step(k, m, "project_type", PyIndex(state.questions, 0),
                           << >>, 0, FALSE, FALSE))
    /\ UNCHANGED << audits, odd >>
    /\ Frame

\* in a questionnaire, no questions yet, and the message names no type
RepromptProjectType(k, m) ==
    /\ CanReceive(k)
    /\ Offered(m)
    /\ InQuestionnaire(StateOf(k))
    /\ "questions" \notin StateOf(k).keys
    /\ ~IsProjectType(UserIntent[m])
    /\ Observe(Step(k, m, "reprompt", RePrompt, << >>, 0, FALSE, FALSE))
    /\ UNCHANGED << conversation_state, dicts, lists, handlers, audits, odd >>
    /\ Frame

\* an answer to the URL question, and the call of the tool object raises:
\* the answer is in the dict, and the outer except clause replies
AnswerToolRaises(k, m) ==
    /\ CanReceive(k)
    /\ Offered(m)
    /\ InQuestionnaire(StateOf(k))
    /\ "questions" \in StateOf(k).keys
    /\ AnswerOffered(StateOf(k), m)
    /\ LastQuestion(StateOf(k)) \in UrlQuestions
    /\ "raises" \in ToolCallOutcomes
    /\ LET ref == StateRef(k)
           state == Recorded(StateOf(k), m)
       IN  /\ Store(conversation_state, [dicts EXCEPT ![ref] = state], lists, handlers)
           /\ Observe(Step(k, m, "error", Apology(ToolCallError),
                           << JenkinsCall(m) >>, 0, FALSE, FALSE))
    /\ odd' = OddAfter(m)
    /\ UNCHANGED audits
    /\ Frame

\* the tool call of an answer step when the tool body runs: the status text
\* (empty when the question is no URL question), the POSTs and the calls made
ToolRuns(last_question, message) ==
    IF last_question \in UrlQuestions
    THEN { [ text |-> trigger_jenkins_build(message, env, post).text,
             posts |-> trigger_jenkins_build(message, env, post).posts,
             calls |-> << JenkinsCall(message) >> ] :
               env \in JenkinsEnvs, post \in PostOutcomes }
    ELSE { [ text |-> "", posts |-> 0, calls |-> << >> ] }

\* an answer, and a question is left: the next question is asked
AnswerNext(k, m) ==
    /\ CanReceive(k)
    /\ Offered(m)
    /\ InQuestionnaire(StateOf(k))
    /\ "questions" \in StateOf(k).keys
    /\ AnswerOffered(StateOf(k), m)
    /\ HasNext(StateOf(k))
    /\ LET ref == StateRef(k)
           recorded == Recorded(StateOf(k), m)
           state == Advanced(recorded)
       IN  /\ Store(TableSet(conversation_state, k, ref),
                    [dicts EXCEPT ![ref] = state], lists, handlers)
           /\ \E tool \in ToolRuns(LastQuestion(recorded), m) :
                Observe(WithStatus(Step(k, m, "next",
                                        NextQuestionReply(tool.text, NextQuestion(recorded)),
                                        tool.calls, tool.posts, FALSE, FALSE),
                                   tool.text))
    /\ odd' = OddAfter(m)
    /\ UNCHANGED audits
    /\ Frame

\* the last answer, and the row is committed: the session is deleted
CompleteSaved(k, m) ==
    /\ CanReceive(k)
    /\ Offered(m)
    /\ InQuestionnaire(StateOf(k))
    /\ "questions" \in StateOf(k).keys
    /\ AnswerOffered(StateOf(k), m)
    /\ ~HasNext(StateOf(k))
    /\ Len(audits) < AuditCap
    /\ LET ref == StateRef(k)
           state == Recorded(StateOf(k), m)
       IN  /\ Store(TableDel(conversation_state, k),
                    [dicts EXCEPT ![ref] = state], lists, handlers)
           /\ \E timestamp \in Timestamps :
                audits' = Inserted(audits, AuditRow(state, timestamp))
           /\ \E tool \in ToolRuns(LastQuestion(state), m) :
                Observe(WithDb(WithStatus(Step(k, m, "saved", SavedReply, tool.calls,
                                               tool.posts, FALSE, TRUE),
                                          tool.text),
                               "ok"))
    /\ odd' = OddAfter(m)
    /\ Frame

\* the last answer, and execute or commit raises sqlite3.Error inside the
\* try of predict: the reply carries the error and the session is deleted
CompleteNotSaved(k, m) ==
    /\ CanReceive(k)
    /\ Offered(m)
    /\ variant = "gradio"
    /\ InQuestionnaire(StateOf(k))
    /\ "questions" \in StateOf(k).keys
    /\ AnswerOffered(StateOf(k), m)
    /\ ~HasNext(StateOf(k))
    /\ Len(audits) < AuditCap
    /\ LET ref == StateRef(k)
           state == Recorded(StateOf(k), m)
       IN  /\ Store(TableDel(conversation_state, k),
                    [dicts EXCEPT ![ref] = state], lists, handlers)
           /\ \E db \in DbOutcomes \ {"ok", "connect_fails"},
                 tool \in ToolRuns(LastQuestion(state), m) :
                Observe(WithDb(WithStatus(Step(k, m, "not_saved", NotSavedReply(DbError(db)),
                                               tool.calls, tool.posts, FALSE, FALSE),
                                          tool.text),
                               db))
    /\ odd' = OddAfter(m)
    /\ UNCHANGED audits
    /\ Frame

\* the last answer, and the error reaches the outer except clause: in
\* predict when connect raises (the finally clause then reads conn, which was
\* never bound), in handle_app_mention when any sqlite3 call raises.  The
\* answer is in the dict and the session stays in the table.
CompleteError(k, m) ==
    /\ CanReceive(k)
    /\ Offered(m)
    /\ InQuestionnaire(StateOf(k))
    /\ "questions" \in StateOf(k).keys
    /\ AnswerOffered(StateOf(k), m)
    /\ ~HasNext(StateOf(k))
    /\ Len(audits) < AuditCap
    /\ LET ref == StateRef(k)
           state == Recorded(StateOf(k), m)
       IN  /\ Store(conversation_state, [dicts EXCEPT ![ref] = state], lists, handlers)
           /\ \E db \in DbOutcomes \ {"ok"}, tool \in ToolRuns(LastQuestion(state), m) :
                /\ variant = "gradio" => db = "connect_fails"
                /\ Observe(WithDb(WithStatus(
                             Step(k, m, "error",
                                  Apology(IF variant = "gradio" THEN UnboundConn ELSE DbError(db)),
                                  tool.calls, tool.posts, FALSE, FALSE),
                             tool.text), db))
    /\ odd' = OddAfter(m)
    /\ UNCHANGED audits
    /\ Frame

\* not in a questionnaire, and the message asks for an audit and names no tool
StartQuestionnaire(k, m) ==
    /\ CanReceive(k)
    /\ Offered(m)
    /\ ~InQuestionnaire(StateOf(k))
    /\ m \in StartMsgs
    /\ LET ref == StateRef(k)
           state == Started(StateOf(k))
       IN  /\ Store(TableSet(conversation_state, k, ref),
                    [dicts EXCEPT ![ref] = state], lists, handlers)
           /\ Observe(Step(k, m, "start", TypePrompt, << >>, 0, FALSE, FALSE))
    /\ UNCHANGED << audits, odd >>
    /\ Frame

\* a deviation: the agent called whether or not the key is set; C14 fails of it
HasApiKeyAlways(key) == TRUE

\* OPENAI_API_KEY as a condition: not None and not empty
HasApiKey(key) == key # ""

\* the agent path without an API key
NotConfigured(k, m) ==
    /\ CanReceive(k)
    /\ Offered(m)
    /\ ~InQuestionnaire(StateOf(k))
    /\ m \notin StartMsgs
    /\ ~HasApiKey(OPENAI_API_KEY)
    /\ Observe(Step(k, m, "not_configured", NotConfiguredReply, << >>, 0, FALSE, FALSE))
    /\ UNCHANGED << conversation_state, dicts, lists, handlers, audits, odd >>
    /\ Frame


\* HumanMessage(content=...), AIMessage(content=...)
HumanMessage(content) == [ role |-> "human", content |-> content ]
AIMessage(content) == [ role |-> "ai", content |-> content ]

\* state.get("agent_history", []): the list in the dict, or a new list
HistoryRef(state) ==
    IF "agent_history" \in state.keys THEN state.agent_history ELSE FreshList

FreeHandler == CHOOSE h \in HandlerIds :
    /\ handlers[h].pc = "idle"
    /\ \A g \in HandlerIds : g < h => handlers[g].pc # "idle"

\* the agent path: the handler is suspended at agent_executor.ainvoke, holding
\* its state and (main.py) its chat_history
AgentBegin(k, m) ==
    /\ CanReceive(k)
    /\ Offered(m)
    /\ Cardinality(Busy) < InFlightCap
    /\ ~InQuestionnaire(StateOf(k))
    /\ m \notin StartMsgs
    /\ HasApiKey(OPENAI_API_KEY)
    /\ IF variant = "main"
       THEN /\ m \in AgentMsgs
            /\ Len(lists[HistoryRef(StateOf(k))]) < 2 * HistoryCap
            /\ Store(conversation_state, dicts, lists,
                     [handlers EXCEPT ![FreeHandler] =
                        [ pc |-> "ainvoke", key |-> k, msg |-> m, state |-> StateRef(k),
                          chat_history |-> HistoryRef(StateOf(k)) ]])
       ELSE Store(conversation_state, dicts, lists,
                  [handlers EXCEPT ![FreeHandler] =
                     [ pc |-> "ainvoke", key |-> k, msg |-> m, state |-> 0,
                       chat_history |-> 0 ]])
    /\ Observe(Step(k, m, "agent", "", << >>, 0, TRUE, FALSE))
    /\ UNCHANGED << audits, odd >>
    /\ Frame

\* what the agent does with its tools during one call: nothing, or one call
\* of a tool with the argument it took from the message
AgentRuns(message) ==
    { [ calls |-> << >>, posts |-> 0 ],
      [ calls |-> << [ name |-> "run_mobsf_scan", arg |-> message ] >>, posts |-> 0 ] }
    \cup { [ calls |-> << JenkinsCall(message) >>,
             posts |-> trigger_jenkins_build(message, env, post).posts ] :
               env \in JenkinsEnvs, post \in PostOutcomes }

\* chat_history.extend([...]); state["agent_history"] = chat_history
Extended(history, user_input, output) ==
    history \o << HumanMessage(user_input), AIMessage(output) >>

\* ainvoke returns: main.py puts the exchange into the history and stores the
\* state it read before the call under the key; predict only replies
AgentReturn(h, output) ==
    /\ handlers[h].pc = "ainvoke"
    /\ LET hd == handlers[h]
           hs == [handlers EXCEPT ![h] = NoHandler]
       IN  /\ IF variant = "main"
              THEN Store(TableSet(conversation_state, hd.key, hd.state),
                         [dicts EXCEPT ![hd.state] =
                            [ @ EXCEPT !.keys = @ \cup {"agent_history"},
                                       !.agent_history = hd.chat_history ]],
                         [lists EXCEPT ![hd.chat_history] = Extended(@, hd.msg, output)],
                         hs)
              ELSE Store(conversation_state, dicts, lists, hs)
           /\ \E run \in AgentRuns(hd.msg) :
                Observe(Step(hd.key, hd.msg, "agent_reply", output, run.calls, run.posts,
                             FALSE, FALSE))
    /\ UNCHANGED << audits, odd >>
    /\ Frame

\* ainvoke raises: the outer except clause replies
AgentRaise(h) ==
    /\ handlers[h].pc = "ainvoke"
    /\ Store(conversation_state, dicts, lists, [handlers EXCEPT ![h] = NoHandler])
    /\ Observe(Step(handlers[h].key, handlers[h].msg, "agent_error", Apology(AgentError),
                    << >>, 0, FALSE, FALSE))
    /\ UNCHANGED << audits, odd >>
    /\ Frame

(***************************************************************************)
(* A CI-trigger function called on its own.                                *)
(***************************************************************************)
NoCiCall == [ pc |-> "none", impl |-> "", endpoint |-> "",
              env |-> CHOOSE env \in JenkinsEnvs : ~AllSet(env) /\ env.JENKINS_URL = ""
                                                   /\ env.JENKINS_API_TOKEN = ""
                                                   /\ env.JENKINS_JOB_NAME = "",
              post |-> CHOOSE post \in PostOutcomes : post.ok,
              text |-> "", posts |-> 0, raised |-> "" ]

\* the calls to be made: the function, its argument, the environment it
\* reads and what requests.post does if it is called
CiCalls ==
    { [ NoCiCall EXCEPT !.pc = "call", !.impl = impl, !.endpoint = endpoint,
                        !.env = env, !.post = post ] :
        impl \in CiTriggers, endpoint \in Endpoints, env \in JenkinsEnvs,
        post \in PostOutcomes }

\* the function runs: it returns a text or raises
CiTriggerRuns ==
    /\ ci_call.pc = "call"
    /\ LET c == ci_call
           r == IF c.impl = "run_jenkins_job"
                THEN run_jenkins_job(c.endpoint, c.env, c.post)
                ELSE [ text |-> trigger_jenkins_build(c.endpoint, c.env, c.post).text,
                       posts |-> trigger_jenkins_build(c.endpoint, c.env, c.post).posts,
                       raised |-> "" ]
       IN  ci_call' = [ c EXCEPT !.pc = "done", !.text = r.text, !.posts = r.posts,
                                 !.raised = r.raised ]
    /\ UNCHANGED << variant, sched, OPENAI_API_KEY, conversation_state, dicts, lists,
                    handlers, audits, odd, last, log >>

(***************************************************************************)
(* The specifications.                                                     *)
(***************************************************************************)
InitWith(s) ==
    /\ variant \in {"gradio", "main"}
    /\ sched = s
    /\ OPENAI_API_KEY \in {"", "sk-test"}
    /\ conversation_state = [ k \in {} |-> 0 ]
    /\ dicts = [ d \in DictIds |-> EmptyDict ]
    /\ lists = [ l \in ListIds |-> << >> ]
    /\ handlers = [ h \in HandlerIds |-> NoHandler ]
    /\ audits = << >>
    /\ odd = 0
    /\ last = NoStep
    /\ log = [ k \in SessionKeys |-> NoLog ]
    /\ ci_call = NoCiCall

Init == InitWith("serial")
InitConcurrent == InitWith("concurrent")
InitOverlap == InitWith("overlap")

Next ==
    \/ \E k \in SessionKeys, m \in Msgs : AcceptProjectType(k, m)
    \/ \E k \in SessionKeys, m \in Msgs : RepromptProjectType(k, m)
    \/ \E k \in SessionKeys, m \in Msgs : AnswerToolRaises(k, m)
    \/ \E k \in SessionKeys, m \in Msgs : AnswerNext(k, m)
    \/ \E k \in SessionKeys, m \in Msgs : CompleteSaved(k, m)
    \/ \E k \in SessionKeys, m \in Msgs : CompleteNotSaved(k, m)
    \/ \E k \in SessionKeys, m \in Msgs : CompleteError(k, m)
    \/ \E k \in SessionKeys, m \in Msgs : StartQuestionnaire(k, m)
    \/ \E k \in SessionKeys, m \in Msgs : NotConfigured(k, m)
    \/ \E k \in SessionKeys, m \in Msgs : AgentBegin(k, m)
    \/ \E h \in HandlerIds, output \in AgentOutputs : AgentReturn(h, output)
    \/ \E h \in HandlerIds : AgentRaise(h)

\* one message at a time
Spec == Init /\ [][Next]_vars

\* handlers interleaved at the language-model call
SpecConcurrent == InitConcurrent /\ [][Next]_vars

\* one key, handlers of it suspended at the language-model call together
SpecOverlap == InitOverlap /\ [][Next]_vars

\* a handler suspended at the language-model call is resumed when the call
\* has returned or raised
Resume ==
    \/ \E h \in HandlerIds, output \in AgentOutputs : AgentReturn(h, output)
    \/ \E h \in HandlerIds : AgentRaise(h)

\* the handlers of one key interleaved, every suspended handler resumed in
\* the end
SpecOverlapFair == InitOverlap /\ [][Next]_vars /\ WF_vars(Resume)

\* a CI-trigger function called once, with every argument and environment
InitTools ==
    /\ variant \in {"gradio", "main"}
    /\ sched = "serial"
    /\ OPENAI_API_KEY = ""
    /\ conversation_state = [ k \in {} |-> 0 ]
    /\ dicts = [ d \in DictIds |-> EmptyDict ]
    /\ lists = [ l \in ListIds |-> << >> ]
    /\ handlers = [ h \in HandlerIds |-> NoHandler ]
    /\ audits = << >>
    /\ odd = 0
    /\ last = NoStep
    /\ log = [ k \in SessionKeys |-> NoLog ]
    /\ ci_call \in CiCalls

NextTools == CiTriggerRuns

SpecTools == InitTools /\ [][NextTools]_vars


(***************************************************************************)
(* The claims.  The formulas read the state and the observed step, and     *)
(* state the texts and the lists they expect themselves.                   *)
(***************************************************************************)
\* the dict a key has in the table, or an empty dict
DictAt(table, ds, k) == IF k \in DOMAIN table THEN ds[table[k]] ELSE EmptyDict
Before(k) == DictAt(conversation_state, dicts, k)
After(k) == DictAt(conversation_state', dicts', k)

Flagged(d) == "in_questionnaire" \in d.keys /\ d.in_questionnaire = TRUE
Asking(d) == Flagged(d) /\ "questions" \in d.keys

\* the step takes up a message for key k (it is not the resumption of a
\* handler after the language-model call)
Receives(k) == last'.key = k /\ last'.path \notin {"none", "agent_reply", "agent_error"}

\* the messages with an audit word, and those with a tool word, in any case
AuditWordMsgs == { m \in Msgs : In("audit", lower(m)) \/ In("questionnaire", lower(m)) }
ToolWordMsgs == { m \in Msgs : In("jenkins", lower(m)) \/ In("mobsf", lower(m)) }
HasAuditWord(m) == m \in AuditWordMsgs
HasToolWord(m) == m \in ToolWordMsgs

\* C1: whenever a session has a question list, its question_index is at
\* least 0 and at most the length of the list, which is the 8-question mobile
\* list or the 13-question web list.
C1_IndexInRange ==
    \A k \in DOMAIN conversation_state :
        LET d == Before(k)
        IN  "questions" \in d.keys =>
              /\ 0 <= d.question_index
              /\ d.question_index <= Len(d.questions)
              /\ \/ d.questions = MOBILE_QUESTIONS /\ Len(d.questions) = 8
                 \/ d.questions = WEB_QUESTIONS /\ Len(d.questions) = 13

C1_Witness ==
    \E k \in DOMAIN conversation_state :
        /\ "questions" \in Before(k).keys
        /\ Before(k).questions = WEB_QUESTIONS
        /\ Before(k).question_index = 13

\* C2 as stated: while a session is in a questionnaire and has its question
\* list, answers has exactly question_index entries.
C2_Original ==
    \A k \in DOMAIN conversation_state :
        Asking(Before(k)) => Len(Before(k).answers) = Before(k).question_index

\* C2 amended: while a session is in a questionnaire and has its question
\* list, answers has question_index - 1 entries, or question_index entries
\* when the last answer step failed after recording the answer; it has
\* question_index - 1 entries right after the project type was accepted and
\* after every step that asked the next question.
C2_AnswersBehindIndex ==
    \A k \in DOMAIN conversation_state :
        LET d == Before(k)
        IN  Asking(d) =>
              /\ Len(d.answers) \in {d.question_index - 1, d.question_index}
              /\ (last.key = k /\ last.path \in {"project_type", "next"})
                    => Len(d.answers) = d.question_index - 1

C2_Witness ==
    \E k \in DOMAIN conversation_state :
        /\ Asking(Before(k))
        /\ last.path = "next"
        /\ Before(k).question_index = 3
        /\ Len(Before(k).answers) = 2

\* C3: a message for a session whose in_questionnaire is true is handled by
\* the questionnaire step whatever its text: the type step or the answer step
\* replies, the agent is not invoked, the session is not started anew, and
\* with a question list the message is recorded as the answer.
C3_QuestionnaireFirst ==
    [][ \A k \in DOMAIN conversation_state :
          (Flagged(Before(k)) /\ Receives(k)) =>
            /\ last'.path \in {"project_type", "reprompt", "next", "saved",
                               "not_saved", "error"}
            /\ ~last'.agent
            /\ handlers' = handlers
            /\ ("questions" \notin Before(k).keys) =>
                  last'.path \in {"project_type", "reprompt"}
            /\ ("questions" \in Before(k).keys) =>
                  last'.path \in {"next", "saved", "not_saved", "error"}
            /\ k \in DOMAIN conversation_state' =>
                  /\ Flagged(After(k))
                  /\ Len(After(k).answers) >= Len(Before(k).answers)
                  /\ ("questions" \in Before(k).keys) =>
                        After(k).answers[Len(After(k).answers)][2] = last'.msg
      ]_vars

C3_Witness ==
    /\ last.path = "next"
    /\ HasAuditWord(last.msg) /\ HasToolWord(last.msg)
    /\ last.key \in DOMAIN conversation_state
    /\ Before(last.key).answers[Len(Before(last.key).answers)][2] = last.msg

\* C4: for a session not in a questionnaire, a message with an audit word
\* and a tool word starts no questionnaire (in_questionnaire stays unset) and
\* takes the agent path: the agent is invoked, or, without an API key, the
\* not-configured reply of the agent path is given.
C4_ToolWordWins ==
    [][ \A k \in SessionKeys :
          (/\ ~Flagged(Before(k))
           /\ Receives(k)
           /\ HasAuditWord(last'.msg) /\ HasToolWord(last'.msg)) =>
            /\ last'.path \in {"agent", "not_configured"}
            /\ last'.path = "agent" <=> OPENAI_API_KEY # ""
            /\ last'.agent <=> OPENAI_API_KEY # ""
            /\ last'.reply # TypePrompt
            /\ ~Flagged(After(k))
            /\ "in_questionnaire" \notin After(k).keys
      ]_vars

C4_Witness ==
    /\ last.path = "agent"
    /\ last.agent
    /\ HasAuditWord(last.msg) /\ HasToolWord(last.msg)
    /\ "in_questionnaire" \notin DictAt(conversation_state, dicts, last.key).keys

\* C5: for a session not in a questionnaire, a message with an audit word
\* and no tool word puts the session in the table with in_questionnaire
\* true, empty answers and no question list, replies with the project-type
\* prompt, and invokes neither the agent nor a tool nor the store.
C5_Start ==
    [][ \A k \in SessionKeys :
          (/\ ~Flagged(Before(k))
           /\ Receives(k)
           /\ HasAuditWord(last'.msg) /\ ~HasToolWord(last'.msg)) =>
            /\ last'.path = "start"
            /\ k \in DOMAIN conversation_state'
            /\ Flagged(After(k))
            /\ "answers" \in After(k).keys /\ After(k).answers = <<>>
            /\ "questions" \notin After(k).keys
            /\ last'.reply = "I can help with that. What kind of project is it - mobile or web?"
            /\ ~last'.agent /\ last'.calls = <<>> /\ last'.posts = 0
            /\ ~last'.stored
            /\ handlers' = handlers /\ audits' = audits
      ]_vars

C5_Witness ==
    /\ last.path = "start"
    /\ HasAuditWord(last.msg) /\ ~HasToolWord(last.msg)
    /\ last.key \in DOMAIN conversation_state
    /\ Asking(Before(last.key)) = FALSE
    /\ Flagged(Before(last.key))
    /\ Before(last.key).answers = <<>>

\* the project-type match of each variant, on the message text
WholeMatch == [ t \in {"mobile", "web"} |-> { m \in Msgs : lower(m) = t } ]
PartMatch == [ t \in {"mobile", "web"} |-> { m \in Msgs : In(t, lower(m)) } ]
MatchesType(m, t) == IF variant = "gradio" THEN m \in WholeMatch[t] ELSE m \in PartMatch[t]
MatchesAType(m) == MatchesType(m, "mobile") \/ MatchesType(m, "web")

\* C6: when the session is in a questionnaire with no question list and the
\* message matches "mobile" or "web" (the whole lowered message in
\* gradio_server.py, a substring of it in main.py), the session gets
\* project_type equal to a matched token, the list of that type as questions,
\* question_index 1, and the reply is the first question of the list.
C6_TypeAccepted ==
    [][ \A k \in DOMAIN conversation_state :
          (/\ Flagged(Before(k)) /\ "questions" \notin Before(k).keys
           /\ Receives(k)
           /\ MatchesAType(last'.msg)) =>
            /\ last'.path = "project_type"
            /\ k \in DOMAIN conversation_state'
            /\ Flagged(After(k))
            /\ {"project_type", "questions", "question_index"} \subseteq After(k).keys
            /\ After(k).project_type \in {"mobile", "web"}
            /\ MatchesType(last'.msg, After(k).project_type)
            /\ After(k).project_type = "mobile" => After(k).questions = MOBILE_QUESTIONS
            /\ After(k).project_type = "web" => After(k).questions = WEB_QUESTIONS
            /\ After(k).question_index = 1
            /\ last'.reply = After(k).questions[1]
            /\ ~last'.agent /\ last'.calls = <<>>
      ]_vars

C6_Witness ==
    /\ variant = "main"
    /\ last.path = "project_type"
    /\ last.msg = "my web app"
    /\ last.key \in DOMAIN conversation_state
    /\ Before(last.key).project_type = "web"
    /\ Before(last.key).question_index = 1
    /\ last.reply = "What is the website URL?"

\* C7: when the session is in a questionnaire with no question list and the
\* message matches neither "mobile" nor "web", the reply is the re-prompt and
\* the session table is unchanged (and so are the stored dicts, the pending
\* handlers and the audit table); no tool, agent or store call is made.  As
\* this holds of every such step, it holds of any number of them in a row.
C7_Reprompt ==
    [][ \A k \in DOMAIN conversation_state :
          (/\ Flagged(Before(k)) /\ "questions" \notin Before(k).keys
           /\ Receives(k)
           /\ ~MatchesAType(last'.msg)) =>
            /\ last'.path = "reprompt"
            /\ last'.reply = RePrompt
            /\ UNCHANGED <<conversation_state, dicts, lists, handlers, audits>>
            /\ Flagged(After(k)) /\ After(k).answers = <<>>
            /\ "questions" \notin After(k).keys
            /\ ~last'.agent /\ last'.calls = <<>> /\ last'.posts = 0
            /\ ~last'.stored
      ]_vars

\* two non-matching messages in a row would need history; the witness is a
\* re-prompt given for a message that names a type inside a longer text
\* (gradio_server.py) or names none
C7_Witness ==
    /\ last.path = "reprompt"
    /\ last.key \in DOMAIN conversation_state
    /\ Flagged(Before(last.key))
    /\ "questions" \notin Before(last.key).keys
    /\ \/ variant = "gradio" /\ last.msg = "my web app"
       \/ variant = "main" /\ last.msg = "hello"

\* C8: from a fresh session, after the audit request and a valid project
\* type, every answer message of a run without a failure (no step of the run
\* raised, the store accepted the row) is replied to with the next question
\* of the list in its static order, and the answer to the last question is
\* replied to with the completion message and adds exactly one row to the
\* audit table, whose project_type is the type chosen and whose answers are
\* the questions of the list, each with the answer given to it, 8 for mobile
\* and 13 for web.
C8_CompleteRun ==
    [][ \A k \in DOMAIN conversation_state :
          (/\ Asking(Before(k))
           /\ log[k].clean
           /\ Receives(k)
           /\ last'.path \notin {"error", "not_saved"}) =>
            LET t == Before(k).project_type
                Qs == IF t = "mobile" THEN MOBILE_QUESTIONS ELSE WEB_QUESTIONS
                n == IF t = "mobile" THEN 8 ELSE 13
                given == log'[k].given
            IN  /\ t \in {"mobile", "web"}
                /\ MatchesType(log[k].type_msg, t)
                /\ Len(Qs) = n
                /\ Len(given) = Len(log[k].given) + 1
                /\ Len(given) <= n
                /\ \A i \in 1..Len(given) : given[i][1] = Qs[i]
                /\ given[Len(given)][2] = last'.msg
                /\ Len(given) < n =>
                     /\ last'.path = "next"
                     /\ Asked(last'.reply) = Qs[Len(given) + 1]
                     /\ audits' = audits
                /\ Len(given) = n =>
                     /\ last'.path = "saved"
                     /\ last'.reply = IF variant = "gradio"
                          THEN "Thank you! All answers have been recorded in the local database. How else can I help you?"
                          ELSE "Thank you! All answers have been recorded. How else can I help?"
                     /\ Len(audits') = Len(audits) + 1
                     /\ SubSeq(audits', 1, Len(audits)) = audits
                     /\ audits'[Len(audits')].project_type = t
                     /\ audits'[Len(audits')].answers = json_dumps(given)
      ]_vars

C8_Witness ==
    /\ last.path = "saved"
    /\ log[last.key].clean
    /\ Len(log[last.key].given) = 13
    /\ Len(audits) = 1
    /\ audits[1].project_type = "web"
    /\ audits[1].answers = json_dumps(log[last.key].given)
    /\ \A i \in 1..13 : log[last.key].given[i][1] = WEB_QUESTIONS[i]

\* C9: the step that completes a questionnaire leaves the session key absent
\* from the table, and the next message with that key is classified from
\* scratch: it starts a questionnaire if it has an audit word and no tool
\* word and takes the agent path otherwise; it is not recorded as an answer.
C9_RemovedOnCompletion ==
    [][ \A k \in SessionKeys :
          /\ (Receives(k) /\ last'.path \in {"saved", "not_saved"}) =>
                k \notin DOMAIN conversation_state'
          /\ (last.key = k /\ last.path \in {"saved", "not_saved"} /\ Receives(k)) =>
                /\ k \notin DOMAIN conversation_state
                /\ last'.path \in {"start", "agent", "not_configured"}
                /\ last'.path = "start" <=>
                      (HasAuditWord(last'.msg) /\ ~HasToolWord(last'.msg))
                /\ audits' = audits
                /\ k \in DOMAIN conversation_state' =>
                      /\ After(k).answers = <<>>
                      /\ "questions" \notin After(k).keys
      ]_vars

C9_Witness ==
    /\ last.path = "start"
    /\ Len(audits) = 1
    /\ log[last.key].given = <<>>
    /\ last.key \in DOMAIN conversation_state
    /\ Before(last.key).answers = <<>>
    /\ "questions" \notin Before(last.key).keys

\* C10: an answer step calls trigger_jenkins_build exactly once, with the
\* message text as endpoint, when the question it answers is the URL question
\* of the list (the first web question, the eighth mobile question), and does
\* not call it when it answers any other question.
C10_CiTriggerOnUrlQuestion ==
    [][ \A k \in DOMAIN conversation_state :
          (Asking(Before(k)) /\ Receives(k)) =>
            LET d == Before(k)
                url == \/ d.questions = WEB_QUESTIONS /\ d.question_index = 1
                       \/ d.questions = MOBILE_QUESTIONS /\ d.question_index = 8
            IN  /\ url => last'.calls =
                            << [ name |-> "trigger_jenkins_build", arg |-> last'.msg ] >>
                /\ ~url => last'.calls = <<>> /\ last'.posts = 0
                /\ last'.posts <= 1
      ]_vars

C10_Witness ==
    /\ last.path = "saved"
    /\ last.msg = "https://x.test/app"
    /\ last.calls = << [ name |-> "trigger_jenkins_build", arg |-> "https://x.test/app" ] >>
    /\ Len(audits) = 1
    /\ audits[1].project_type = "mobile"

\* C11: whenever an answer to the URL question made the tool call and the
\* call returned its status text, that text is part of the reply to the
\* answer, for the web list (the URL question is the first) and for the
\* mobile list (it is the last, and the reply is the completion message).
C11_StatusInReply ==
    [][ \A k \in DOMAIN conversation_state :
          (Asking(Before(k)) /\ Receives(k) /\ last'.status # "") =>
             In(last'.status, last'.reply)
      ]_vars

\* the part of C11 that the handlers do: the status text is in the reply that
\* asks the next question
C11_StatusBeforeNextQuestion ==
    [][ \A k \in DOMAIN conversation_state :
          (Asking(Before(k)) /\ Receives(k) /\ last'.status # "" /\ last'.path = "next") =>
             /\ In(last'.status, last'.reply)
             /\ Before(k).questions = WEB_QUESTIONS /\ Before(k).question_index = 1
      ]_vars

\* the text of the sqlite3 error of each failing call
StoreErrorText ==
    [ db \in {"connect_fails", "execute_fails", "commit_fails"} |->
        CASE db = "connect_fails" -> "unable to open database file"
          [] db = "execute_fails" -> "no such table: audits"
          [] db = "commit_fails" -> "database is locked" ]

\* C12: when the last question is answered and the write of the row fails,
\* at connect, at the insert or at commit, the reply is a thank-you message
\* that carries the reason of the failure, and the session is deleted from
\* the table as it is when the write succeeds; in both handlers.
C12_LenientCompletion ==
    [][ \A k \in DOMAIN conversation_state :
          (Asking(Before(k)) /\ Receives(k) /\ last'.db \notin {"", "ok"}) =>
             /\ SubSeq(last'.reply, 1, 10) = "Thank you!"
             /\ In(StoreErrorText[last'.db], last'.reply)
             /\ k \notin DOMAIN conversation_state'
      ]_vars

\* the part of C12 that predict does: a failure of the insert or of commit
C12_LenientInPredict ==
    [][ \A k \in DOMAIN conversation_state :
          (/\ Asking(Before(k)) /\ Receives(k)
           /\ variant = "gradio" /\ last'.db \in {"execute_fails", "commit_fails"}) =>
             /\ SubSeq(last'.reply, 1, 10) = "Thank you!"
             /\ In(StoreErrorText[last'.db], last'.reply)
             /\ k \notin DOMAIN conversation_state'
      ]_vars

\* the agent_history of a dict, as the list of its messages
HistoryOf(d, ls) == IF "agent_history" \in d.keys THEN ls[d.agent_history] ELSE << >>

\* the step ended in the outer except clause of the handler
Failed(k) == last'.key = k /\ last'.path \in {"error", "agent_error"} /\ last' # last

\* C13: when handling a message fails inside (the tool call raises, a store
\* call raises outside the lenient case, the agent call raises), the reply is
\* the apology and the session is as it was before the message: in the table
\* or not, with the same question_index, the same answers (the answer of the
\* failed step is not recorded), the same questions and the same
\* agent_history.
C13_FailureAtomic ==
    [][ \A k \in SessionKeys :
          Failed(k) =>
             /\ SubSeq(last'.reply, 1, 32) = "Sorry, a critical error occurred"
             /\ (k \in DOMAIN conversation_state') <=> (k \in DOMAIN conversation_state)
             /\ After(k) = Before(k)
             /\ HistoryOf(After(k), lists') = HistoryOf(Before(k), lists)
      ]_vars

\* the part of C13 that the handlers do: the apology is the reply, the
\* session stays where it was, and question_index, questions, project_type
\* and agent_history are as before; only answers may have the new answer
C13_FailureKeepsIndex ==
    [][ \A k \in SessionKeys :
          Failed(k) =>
             /\ SubSeq(last'.reply, 1, 32) = "Sorry, a critical error occurred"
             /\ (k \in DOMAIN conversation_state') <=> (k \in DOMAIN conversation_state)
             /\ After(k) = [ Before(k) EXCEPT !.answers = After(k).answers ]
             /\ HistoryOf(After(k), lists') = HistoryOf(Before(k), lists)
             /\ last'.path = "agent_error" => After(k) = Before(k)
      ]_vars

\* C14: with OPENAI_API_KEY unset, every message that reaches the agent
\* path (session not in a questionnaire, not an audit request without a tool
\* word) gets the fixed not-configured reply, the agent is not invoked and
\* the table is unchanged; the start of a questionnaire and its steps go on
\* as they do with a key: no step ever gives the not-configured reply to a
\* session in a questionnaire or to an audit request.
C14_FailClosed ==
    [][ \A k \in SessionKeys :
          (Receives(k) /\ OPENAI_API_KEY = "") =>
             /\ ~last'.agent
             /\ handlers' = handlers
             /\ (~Flagged(Before(k)) /\ ~(HasAuditWord(last'.msg) /\ ~HasToolWord(last'.msg))) =>
                  /\ last'.path = "not_configured"
                  /\ last'.reply = IF variant = "gradio"
                       THEN "OpenAI API key is not configured. I can't process this request."
                       ELSE "OpenAI API key is not configured."
                  /\ last'.calls = <<>> /\ last'.posts = 0
                  /\ UNCHANGED << conversation_state, dicts, lists, audits >>
             /\ (Flagged(Before(k)) \/ (HasAuditWord(last'.msg) /\ ~HasToolWord(last'.msg))) =>
                  /\ last'.path \in {"start", "project_type", "reprompt", "next",
                                     "saved", "not_saved", "error"}
                  /\ last'.path = "start" <=> ~Flagged(Before(k))
      ]_vars

\* without a key: a message for the agent was refused, after a questionnaire
\* was completed without one
C14_Witness ==
    /\ OPENAI_API_KEY = ""
    /\ last.path = "not_configured"
    /\ last.msg = "hello"
    /\ Len(audits) = 1
    /\ \A h \in HandlerIds : handlers[h].pc = "idle"

\* one of the four Jenkins variables of the call is not set
ConfigAbsent(env) ==
    \/ env.JENKINS_URL = "" \/ env.JENKINS_USER = ""
    \/ env.JENKINS_API_TOKEN = "" \/ env.JENKINS_JOB_NAME = ""

\* C15: a CI-trigger function called with one of the four configuration
\* values absent returns an error text, makes no call of requests.post and
\* does not raise; for trigger_jenkins_build and for run_jenkins_job.
C15_NoConfigNoCall ==
    (ci_call.pc = "done" /\ ConfigAbsent(ci_call.env)) =>
        /\ ci_call.raised = ""
        /\ ci_call.posts = 0
        /\ SubSeq(ci_call.text, 1, 6) = "Error:"

\* the part of C15 that holds: trigger_jenkins_build
C15_TriggerJenkinsBuild ==
    (/\ ci_call.pc = "done" /\ ConfigAbsent(ci_call.env)
     /\ ci_call.impl = "trigger_jenkins_build") =>
        /\ ci_call.raised = ""
        /\ ci_call.posts = 0
        /\ SubSeq(ci_call.text, 1, 6) = "Error:"

\* C16: a step of a handler for session key A, on any path and with other
\* handlers suspended, leaves the table entry of every other key B as it was:
\* present or not, and with the same in_questionnaire, questions,
\* question_index, answers, project_type and agent_history.
C16_SessionsIndependent ==
    [][ \A b \in SessionKeys :
          b # last'.key =>
             /\ (b \in DOMAIN conversation_state') <=> (b \in DOMAIN conversation_state)
             /\ After(b) = Before(b)
             /\ HistoryOf(After(b), lists') = HistoryOf(Before(b), lists)
      ]_vars

\* an answer step for s2, with a handler of s2 suspended at the agent call,
\* while s1 is at its third question
C16_Witness ==
    /\ last.key = "s2" /\ last.path = "next"
    /\ \E h \in HandlerIds : handlers[h].pc = "ainvoke" /\ handlers[h].key = "s2"
    /\ "s1" \in DOMAIN conversation_state
    /\ Asking(Before("s1"))
    /\ Before("s1").question_index = 3
    /\ Len(Before("s1").answers) = 2

\* the step is the return of the language-model call to a handler of key k
Returned(k) ==
    /\ last'.key = k /\ last'.path = "agent_reply"
    /\ \E h \in HandlerIds :
         /\ handlers[h].pc = "ainvoke" /\ handlers[h].key = k
         /\ handlers'[h].pc = "idle"

\* the step is the failure of the language-model call of a handler of key k
Raised(k) ==
    /\ last'.key = k /\ last'.path = "agent_error"
    /\ \E h \in HandlerIds :
         /\ handlers[h].pc = "ainvoke" /\ handlers[h].key = k
         /\ handlers'[h].pc = "idle"

\* C17: (main.py) an agent exchange that returns a reply puts exactly the
\* pair (human message, agent reply) at the end of the agent_history of its
\* key; a failed agent call adds nothing; and while the key stays in the
\* table no step removes or reorders an entry of its history.
C17_HistoryAppended ==
    [][ variant = "main" =>
          \A k \in SessionKeys :
            LET old == HistoryOf(Before(k), lists)
                new == HistoryOf(After(k), lists')
            IN  /\ Returned(k) =>
                     new = old \o << [ role |-> "human", content |-> last'.msg ],
                                     [ role |-> "ai", content |-> last'.reply ] >>
                /\ Raised(k) => new = old
                /\ ( /\ ~Returned(k)
                     /\ k \in DOMAIN conversation_state
                     /\ k \in DOMAIN conversation_state' ) => new = old ]_vars

\* the step handles the answer to the last question of key k and ends the
\* session
Completes(k) ==
    /\ k \in DOMAIN conversation_state
    /\ Asking(Before(k))
    /\ Before(k).question_index >= Len(Before(k).questions)
    /\ k \notin DOMAIN conversation_state'
    /\ last'.key = k

\* C18: the audits table is append-only and written once per completion:
\* a step that completes a questionnaire with a successful write adds exactly
\* one row after the rows there are, and every other step of every handler
\* (an answer, a start, an agent call, a completion whose write fails) leaves
\* the table as it is; so the number of rows is the number of completions
\* whose write succeeded, and no row is ever changed or removed.
C18_AppendOnlyOnce ==
    [][ IF \E k \in SessionKeys : Completes(k) /\ last'.db = "ok"
        THEN /\ Len(audits') = Len(audits) + 1
             /\ SubSeq(audits', 1, Len(audits)) = audits
        ELSE audits' = audits ]_vars

\* C18, once per questionnaire: a step that completes a questionnaire with a
\* successful write is the first such step since the questionnaire was
\* started, so that one questionnaire has one row.
C18_OncePerQuestionnaire ==
    [][ \A k \in SessionKeys :
          (Completes(k) /\ last'.db = "ok") => ~log[k].saved ]_vars

\* a row is in the table and a later message has started the next
\* questionnaire of the key
C18_Witness ==
    /\ Len(audits) = 1
    /\ last.path = "start"
    /\ last.key \in DOMAIN conversation_state
    /\ Flagged(Before(last.key))

C20_QuestionnaireKept ==
    [][ variant = "main" =>
          \A k \in SessionKeys :
            ( /\ Returned(k)
              /\ k \in DOMAIN conversation_state
              /\ Flagged(Before(k)) )
              => /\ k \in DOMAIN conversation_state'
                 /\ Flagged(After(k)) ]_vars

\* C21: (main.py) a completed questionnaire is not restored: when the
\* language-model call returns to a handler of a key that has no table entry
\* any more, the handler does not put back an entry with in_questionnaire
\* true and the question list and answers of the finished questionnaire.
C21_NotRestored ==
    [][ variant = "main" =>
          \A k \in SessionKeys :
            ( /\ Returned(k)
              /\ k \notin DOMAIN conversation_state
              /\ k \in DOMAIN conversation_state' )
              => ~Flagged(After(k)) ]_vars

\* C22: within one questionnaire the CI-trigger function runs at most once,
\* also when the completing step fails and further messages are sent: a step
\* that gets a status text from the function is the first of its
\* questionnaire to do so.
C22_OneBuildPerRun ==
    [][ \A k \in SessionKeys :
          (last'.key = k /\ last'.status # "") => ~log[k].built ]_vars

\* C23: in every reachable state the questions answered in a session, in the
\* order in which their answers were first recorded, are the first questions
\* of its question list in the order of the list: none skipped, none twice,
\* none out of order, also after failed steps and re-sent answers; a session
\* without question list has no answers.
C23_AnswersPrefix ==
    \A k \in DOMAIN conversation_state :
        LET d == Before(k)
        IN  IF "questions" \in d.keys
            THEN /\ Len(d.answers) <= Len(d.questions)
                 /\ \A i \in 1..Len(d.answers) : d.answers[i][1] = d.questions[i]
            ELSE d.answers = << >>

\* answers stand for the first questions after a step of the questionnaire
\* failed and the answer was sent again
C23_Witness ==
    \E k \in DOMAIN conversation_state :
        /\ Asking(Before(k))
        /\ ~log[k].clean
        /\ last.key = k /\ last.path = "next"
        /\ Len(Before(k).answers) >= 2
        /\ Before(k).question_index = Len(Before(k).answers) + 1

\* the lowered message is the token itself, and the token is in the lowered
\* message
IsToken(m, t) == lower(m) = t
HasToken(m, t) == In(t, lower(m))
ExactMsgs == { m \in Msgs : IsToken(m, "mobile") \/ IsToken(m, "web") }
TokenMsgs == { m \in Msgs : HasToken(m, "mobile") \/ HasToken(m, "web") }
BothTokenMsgs == { m \in Msgs : HasToken(m, "mobile") /\ HasToken(m, "web") }

\* C24: the project-type step of each variant.  In gradio_server.py a message
\* is accepted exactly when its lowered text is "mobile" or "web", and a
\* message that only contains a token (with words or whitespace around it) is
\* re-prompted; in main.py a message is accepted exactly when its lowered
\* text contains a token, and a message that contains both selects mobile.
C24_TypeMatching ==
    [][ \A k \in DOMAIN conversation_state :
          ( /\ Flagged(Before(k)) /\ "questions" \notin Before(k).keys
            /\ last'.key = k
            /\ last'.path \in {"project_type", "reprompt"} ) =>
            /\ variant = "gradio" =>
                 /\ last'.path = "project_type" <=> last'.msg \in ExactMsgs
                 /\ last'.msg \in TokenMsgs \ ExactMsgs => last'.path = "reprompt"
            /\ variant = "main" =>
                 /\ last'.path = "project_type" <=> last'.msg \in TokenMsgs
                 /\ last'.msg \in BothTokenMsgs =>
                      /\ After(k).project_type = "mobile"
                      /\ After(k).questions = MOBILE_QUESTIONS ]_vars

\* gradio_server.py has re-prompted a message with whitespace after the token
C24_Witness ==
    /\ variant = "gradio"
    /\ last.path = "reprompt"
    /\ last.msg = "web "

\* main.py has taken a message with both tokens as mobile
C24_WitnessBoth ==
    /\ variant = "main"
    /\ last.path = "project_type"
    /\ last.msg = "Mobile or web"
    /\ last.key \in DOMAIN conversation_state
    /\ Before(last.key).project_type = "mobile"

=============================================================================
